---- MODULE Spec2Model ----
(***************************************************************************)
(* Model of the cloud-lock command channel (src/main.py).                  *)
(*                                                                         *)
(* The FastAPI handlers are plain `def` functions, so the framework runs   *)
(* them on a thread pool: several handlers can be in flight at once and    *)
(* interleave between any two accesses of the module-level `commands` and  *)
(* `events`.  Each handler is therefore modelled as a sequence of steps,   *)
(* one per access of shared state (the store, the log, the clock); checks  *)
(* that read only the request and the immutable key tables are folded into *)
(* the step that follows them.                                             *)
(*                                                                         *)
(* Python values: a string request id is a tuple (<<>> is "", a token is   *)
(* <<"tok", n>>), an Optional[int] is <<>> for None and <<n>> for n.       *)
(***************************************************************************)
EXTENDS Integers, Sequences, FiniteSets, TLC

VARIABLES
    commands,   \* dict device_id -> command record        (main.py:41)
    events,     \* list of event records                   (main.py:44)
    clock,      \* the value now() returns                 (main.py:47-48)
    issued,     \* how many tokens secrets.token_hex has produced
    pc,         \* per handler thread: the statement it is about to run
    args,       \* per handler thread: the request it serves
    loc,        \* per handler thread: its local variables
    res         \* per handler thread: the response it returns

vars == <<commands, events, clock, issued, pc, args, loc, res>>

----------------------------------------------------------------------------
(* Bounds of the exploration *)

MaxTime == 4
MaxLog == 3
MaxIssue == 2

Threads == {1, 2}

----------------------------------------------------------------------------
(* Program constants *)

ADMIN_API_KEY == "CHANGE_ME_ADMIN_KEY_12345"
DEVICE_KEYS == [lock1 |-> "CHANGE_ME_DEVICE_KEY_LOCK1"]

MinTtl == 3
MaxTtl == 60
DefaultTtl == 10
MaxEvents == 200
TrimBlock == 50
TailLen == 100

----------------------------------------------------------------------------
(* Values *)

None == "None"                  \* a header that was not sent
EmptyId == <<>>                 \* the request id ""
Token(n) == <<"tok", n>>        \* the n-th value of secrets.token_hex(8)
NoTtl == <<>>                   \* ttl_seconds: null

NoneCmd ==
    [action |-> "none", request_id |-> EmptyId, expires_at |-> 0, created_at |-> 0]

EmptyDict == <<>>

DeviceIds == {"lock1", "ghost"}
Keys == {ADMIN_API_KEY, DEVICE_KEYS["lock1"], None}
Statuses == {"done", "failed"}
TtlInputs == {NoTtl, <<-5>>, <<0>>, <<3>>, <<1000>>}

NoArgs ==
    [op |-> "idle", device_id |-> "", key |-> None, request_id |-> EmptyId,
     status |-> "", ttl_seconds |-> NoTtl]

NoLoc == [cur |-> EmptyDict, req_id |-> EmptyId, exp |-> 0, ts |-> 0]

NoRes == [code |-> 0]

----------------------------------------------------------------------------
(* Pure helpers *)

Min(a, b) == IF a < b THEN a ELSE b
Max(a, b) == IF a > b THEN a ELSE b

\* ttl = max(3, min(int(payload.ttl_seconds or 10), 60))
TtlOf(ttl_seconds) ==
    LET given == IF ttl_seconds = NoTtl \/ ttl_seconds = <<0>>
                 THEN DefaultTtl ELSE ttl_seconds[1]
    IN  Max(MinTtl, Min(given, MaxTtl))

\* commands.get(device_id, default)
Get(device_id, default) ==
    IF device_id \in DOMAIN commands THEN commands[device_id] ELSE default

\* current.get("request_id"): None when the dict has no such key
RequestIdOf(current) ==
    IF "request_id" \in DOMAIN current THEN current.request_id ELSE <<None>>

\* commands[device_id] = value
Put(device_id, value) ==
    [d \in DOMAIN commands \cup {device_id} |->
        IF d = device_id THEN value ELSE commands[d]]

\* events[-100:]
LastEvents(log) ==
    IF Len(log) <= TailLen THEN log ELSE SubSeq(log, Len(log) - TailLen + 1, Len(log))

\* (mutant) the trim keeps fewer events than a listing returns
Trim_TooDeep(log) ==
    IF Len(log) > MaxEvents THEN SubSeq(log, 3 * TrimBlock + 1, Len(log)) ELSE log

\* if len(events) > 200: del events[:50]
Trim(log) ==
    IF Len(log) > MaxEvents THEN SubSeq(log, TrimBlock + 1, Len(log)) ELSE log

Active == {t \in Threads : pc[t] # "idle"}

----------------------------------------------------------------------------
Init ==
    /\ commands = <<>>
    /\ events = <<>>
    /\ clock = 0
    /\ issued = 0
    /\ pc = [t \in Threads |-> "idle"]
    /\ args = [t \in Threads |-> NoArgs]
    /\ loc = [t \in Threads |-> NoLoc]
    /\ res = [t \in Threads |-> NoRes]

Goto(t, label) == pc' = [pc EXCEPT ![t] = label]

Return(t, response) ==
    /\ pc' = [pc EXCEPT ![t] = "done"]
    /\ res' = [res EXCEPT ![t] = response]

HttpError(status_code, detail) == [code |-> status_code, detail |-> detail]

\* the clock advances
Tick ==
    /\ clock < MaxTime
    /\ clock' = clock + 1
    /\ UNCHANGED <<commands, events, issued, pc, args, loc, res>>

\* the requests a client can send
\* (a device knows "" and the ids the server has handed out)
IdsKnown == {EmptyId} \cup {Token(n) : n \in 1..issued}

Requests ==
    [op : {"api_unlock"}, device_id : DeviceIds, key : Keys,
     request_id : {EmptyId}, status : {""}, ttl_seconds : TtlInputs]
    \cup
    [op : {"api_command"}, device_id : DeviceIds, key : {None},
     request_id : {EmptyId}, status : {""}, ttl_seconds : {NoTtl}]
    \cup
    [op : {"api_ack"}, device_id : DeviceIds, key : Keys,
     request_id : IdsKnown, status : Statuses, ttl_seconds : {NoTtl}]
    \cup
    [op : {"api_events"}, device_id : {""}, key : Keys,
     request_id : {EmptyId}, status : {""}, ttl_seconds : {NoTtl}]

\* the key the handler of r compares the header with
ExpectedKey(r) ==
    IF r.op = "api_ack" /\ r.device_id \in DOMAIN DEVICE_KEYS
    THEN DEVICE_KEYS[r.device_id] ELSE ADMIN_API_KEY

\* a request that is turned away has the fields nobody reads at their defaults
Canonical(r) ==
    /\ r.op = "api_unlock" /\ (r.key # ADMIN_API_KEY \/ r.device_id \notin DOMAIN DEVICE_KEYS)
          => r.ttl_seconds = NoTtl
    /\ r.op = "api_ack" /\ (r.key # ExpectedKey(r) \/ r.device_id \notin DOMAIN DEVICE_KEYS)
          => r.status = "done"
    /\ r.op = "api_ack" /\ r.device_id \notin DOMAIN DEVICE_KEYS => r.request_id = EmptyId

\* a request for the registered device that carries the key its handler expects
WellFormed(r) ==
    /\ r.op # "api_events" => r.device_id \in DOMAIN DEVICE_KEYS
    /\ r.op # "api_command" => r.key = ExpectedKey(r)

\* the workload of the serial exploration: well-formed requests, one at a time,
\* acknowledgements with either status
SerialLoad ==
    [serial |-> TRUE, cap |-> MaxLog,
     requests |-> {r \in Requests :
                     /\ WellFormed(r)
                     /\ r.op = "api_unlock" => r.ttl_seconds = <<3>>}]

\* the workload of the exploration of request validation: every device, key and
\* lifetime input, one request at a time
ValidationLoad ==
    [serial |-> TRUE, cap |-> MaxLog,
     requests |-> {r \in Requests : Canonical(r) /\ r.status # "failed"}]

\* the workload of the concurrent exploration: well-formed requests,
\* any two of them in flight together
ConcurrentLoad ==
    [serial |-> FALSE, cap |-> MaxLog,
     requests |-> {r \in Requests :
                     /\ WellFormed(r)
                     /\ r.op = "api_unlock" => r.ttl_seconds = <<3>>
                     /\ r.op = "api_ack" => r.status = "done"}]

\* the log is Fill events long when MaxLog more events take it past MaxEvents
Fill == MaxEvents + 1 - MaxLog

\* the workload of the exploration of the long log, one request at a time:
\* before the first issue the log is filled by acknowledgements of "" (and
\* listed); once it holds Fill events, any well-formed request; once an issue
\* has trimmed it, it is only listed
LogLoad ==
    [serial |-> TRUE, cap |-> MaxEvents + 1,
     requests |-> {r \in Requests :
                     /\ WellFormed(r)
                     /\ r.op = "api_unlock" => r.ttl_seconds = <<3>>
                     /\ r.op = "api_ack" => r.status = "done"
                     /\ Len(events) < Fill =>
                           \/ r.op = "api_events"
                           \/ r.op = "api_ack" /\ r.request_id = EmptyId /\ issued = 0}]

\* the workload of the exploration of progress, one request at a time: a
\* command is issued only while the clock can still pass its expires_at, and
\* acknowledgements stop when the log holds MaxLog events; a poll is always
\* taken up
LiveLoad ==
    [serial |-> TRUE, cap |-> MaxLog + 2 * MaxIssue + 2,
     requests |-> {r \in Requests :
                     /\ WellFormed(r)
                     /\ r.op = "api_unlock" =>
                           r.ttl_seconds = <<3>> /\ clock + MinTtl < MaxTime
                     /\ r.op = "api_ack" =>
                           r.status = "done" /\ Len(events) < MaxLog}]

\* the pool hands a request to its first idle thread
FirstIdle(t) == \A u \in Threads : u < t => pc[u] # "idle"

\* thread t is free to take a request up (the guards only bound the exploration)
Accepts(t, load) ==
    /\ pc[t] = "idle"
    /\ FirstIdle(t)
    /\ load.serial => Active = {}
    /\ Len(events) + Cardinality(Active) < load.cap

CanIssue == issued + Cardinality({u \in Active : args[u].op = "api_unlock"}) < MaxIssue

RequestsOf(load, op) == {r \in load.requests : r.op = op}

\* the response has been sent; the thread goes back to the pool
Finish(t) ==
    /\ pc[t] = "done"
    /\ pc' = [pc EXCEPT ![t] = "idle"]
    /\ args' = [args EXCEPT ![t] = NoArgs]
    /\ loc' = [loc EXCEPT ![t] = NoLoc]
    /\ res' = [res EXCEPT ![t] = NoRes]
    /\ UNCHANGED <<commands, events, clock, issued>>

----------------------------------------------------------------------------
(* ensure_device *)

\* if device_id not in DEVICE_KEYS: raise 404; if device_id not in commands: ...
ensure_device(t, r, next) ==
    IF r.device_id \notin DOMAIN DEVICE_KEYS
    THEN /\ Return(t, HttpError(404, "Unknown device_id"))
         /\ UNCHANGED <<commands, events, clock, issued, loc>>
    ELSE /\ IF r.device_id \notin DOMAIN commands
            THEN Goto(t, "ensure_set") ELSE Goto(t, next)
         /\ UNCHANGED <<commands, events, clock, issued, loc, res>>

AfterEnsure(t) ==
    CASE args[t].op = "api_unlock" -> "u_token"
      [] args[t].op = "api_command" -> "p_read"
      [] args[t].op = "api_ack" -> "a_read"

\* commands[device_id] = {"action": "none", ...}
ensure_device_set(t) ==
    /\ pc[t] = "ensure_set"
    /\ commands' = Put(args[t].device_id, NoneCmd)
    /\ Goto(t, AfterEnsure(t))
    /\ UNCHANGED <<events, clock, issued, args, loc, res>>

----------------------------------------------------------------------------
(* POST /api/unlock *)

IssuedEvent(t) ==
    [ts |-> loc[t].ts, type |-> "unlock_issued", device_id |-> args[t].device_id,
     request_id |-> loc[t].req_id]

UnlockCommand(t, created_at) ==
    [action |-> "unlock", request_id |-> loc[t].req_id, expires_at |-> loc[t].exp,
     created_at |-> created_at]

UnlockResponse(t) ==
    [code |-> 200,
     body |-> [ok |-> TRUE, device_id |-> args[t].device_id, action |-> "unlock",
               request_id |-> loc[t].req_id, expires_at |-> loc[t].exp]]

\* (mutant) the admin key is not checked
api_unlock_NoAuth(t, load) ==
    /\ Accepts(t, load)
    /\ CanIssue
    /\ \E r \in RequestsOf(load, "api_unlock") :
        /\ args' = [args EXCEPT ![t] = r]
        /\ ensure_device(t, r, "u_token")

\* admin authentication, then ensure_device
api_unlock(t, load) ==
    /\ Accepts(t, load)
    /\ CanIssue
    /\ \E r \in RequestsOf(load, "api_unlock") :
        /\ args' = [args EXCEPT ![t] = r]
        /\ IF r.key # ADMIN_API_KEY
           THEN /\ Return(t, HttpError(401, "Invalid admin API key"))
                /\ UNCHANGED <<commands, events, clock, issued, loc>>
           ELSE ensure_device(t, r, "u_token")

\* req_id = secrets.token_hex(8); ttl = ...; exp = now() + ttl
api_unlock_token(t) ==
    /\ pc[t] = "u_token"
    /\ issued' = issued + 1
    /\ loc' = [loc EXCEPT ![t].req_id = Token(issued + 1),
                          ![t].exp = clock + TtlOf(args[t].ttl_seconds)]
    /\ Goto(t, "u_store")
    /\ UNCHANGED <<commands, events, clock, args, res>>

\* (mutant) an issue does not replace a command that is still pending
api_unlock_store_KeepsPending(t) ==
    /\ pc[t] = "u_store"
    /\ commands' = IF Get(args[t].device_id, NoneCmd).action = "unlock"
                   THEN commands
                   ELSE Put(args[t].device_id, UnlockCommand(t, clock))
    /\ Goto(t, "u_ts")
    /\ UNCHANGED <<events, clock, issued, args, loc, res>>

\* commands[payload.device_id] = {..., "created_at": now()}
api_unlock_store(t) ==
    /\ pc[t] = "u_store"
    /\ commands' = Put(args[t].device_id, UnlockCommand(t, clock))
    /\ Goto(t, "u_ts")
    /\ UNCHANGED <<events, clock, issued, args, loc, res>>

\* the event dict is built ("ts": now()) ...
api_unlock_ts(t) ==
    /\ pc[t] = "u_ts"
    /\ loc' = [loc EXCEPT ![t].ts = clock]
    /\ Goto(t, "u_append")
    /\ UNCHANGED <<commands, events, clock, issued, args, res>>

\* ... and appended
api_unlock_append(t) ==
    /\ pc[t] = "u_append"
    /\ events' = Append(events, IssuedEvent(t))
    /\ Goto(t, "u_trim")
    /\ UNCHANGED <<commands, clock, issued, args, loc, res>>

\* if len(events) > 200: del events[:50]; return {...}
api_unlock_trim(t) ==
    /\ pc[t] = "u_trim"
    /\ events' = Trim(events)
    /\ Return(t, UnlockResponse(t))
    /\ UNCHANGED <<commands, clock, issued, args, loc>>

----------------------------------------------------------------------------
(* GET /api/command *)

ExpiredEvent(t) ==
    [ts |-> loc[t].ts, type |-> "command_expired", device_id |-> args[t].device_id]

api_command(t, load) ==
    /\ Accepts(t, load)
    /\ \E r \in RequestsOf(load, "api_command") :
        /\ args' = [args EXCEPT ![t] = r]
        /\ ensure_device(t, r, "p_read")

\* cmd = commands.get(device_id, {...})
api_command_read(t) ==
    /\ pc[t] = "p_read"
    /\ loc' = [loc EXCEPT ![t].cur = Get(args[t].device_id, NoneCmd)]
    /\ Goto(t, "p_check")
    /\ UNCHANGED <<commands, events, clock, issued, args, res>>

\* (mutant) a command expires at its expires_at, not after it
IsExpired_AtExpiry(cmd, time) == cmd.action # "none" /\ time >= cmd.expires_at

\* cmd["action"] != "none" and now() > int(cmd.get("expires_at", 0))
IsExpired(cmd, time) == cmd.action # "none" /\ time > cmd.expires_at

\* (mutant) a poll never expires a command
api_command_check_NeverExpires(t) ==
    /\ pc[t] = "p_check"
    /\ Return(t, [code |-> 200, body |-> loc[t].cur])
    /\ UNCHANGED <<commands, events, clock, issued, args, loc>>

\* if <expired>: ... else: return cmd
api_command_check(t) ==
    /\ pc[t] = "p_check"
    /\ IF IsExpired(loc[t].cur, clock)
       THEN /\ Goto(t, "p_reset")
            /\ UNCHANGED res
       ELSE Return(t, [code |-> 200, body |-> loc[t].cur])
    /\ UNCHANGED <<commands, events, clock, issued, args, loc>>

\* (mutant) the expiring poll forgets to reset the slot
api_command_reset_Skipped(t) ==
    /\ pc[t] = "p_reset"
    /\ Goto(t, "p_ts")
    /\ UNCHANGED <<commands, events, clock, issued, args, loc, res>>

\* commands[device_id] = {"action": "none", ...}
api_command_reset(t) ==
    /\ pc[t] = "p_reset"
    /\ commands' = Put(args[t].device_id, NoneCmd)
    /\ Goto(t, "p_ts")
    /\ UNCHANGED <<events, clock, issued, args, loc, res>>

api_command_ts(t) ==
    /\ pc[t] = "p_ts"
    /\ loc' = [loc EXCEPT ![t].ts = clock]
    /\ Goto(t, "p_append")
    /\ UNCHANGED <<commands, events, clock, issued, args, res>>

\* events.append({... "command_expired" ...}); return {"action": "none"}
api_command_append(t) ==
    /\ pc[t] = "p_append"
    /\ events' = Append(events, ExpiredEvent(t))
    /\ Return(t, [code |-> 200, body |-> [action |-> "none"]])
    /\ UNCHANGED <<commands, clock, issued, args, loc>>

----------------------------------------------------------------------------
(* POST /api/ack *)

MismatchEvent(t) ==
    [ts |-> loc[t].ts, type |-> "ack_mismatch", device_id |-> args[t].device_id,
     request_id |-> args[t].request_id,
     current_request_id |-> IF "request_id" \in DOMAIN loc[t].cur
                            THEN loc[t].cur.request_id ELSE EmptyId,
     status |-> args[t].status]

AckEvent(t) ==
    [ts |-> loc[t].ts, type |-> "ack", device_id |-> args[t].device_id,
     request_id |-> args[t].request_id, status |-> args[t].status]

\* (mutant) the key is checked before the device is looked up
api_ack_AuthFirst(t, load) ==
    /\ Accepts(t, load)
    /\ \E r \in RequestsOf(load, "api_ack") :
        /\ args' = [args EXCEPT ![t] = r]
        /\ IF \A d \in DOMAIN DEVICE_KEYS : r.key # DEVICE_KEYS[d]
           THEN /\ Return(t, HttpError(401, "Invalid device key"))
                /\ UNCHANGED <<commands, events, clock, issued, loc>>
           ELSE ensure_device(t, r, "a_read")

api_ack(t, load) ==
    /\ Accepts(t, load)
    /\ \E r \in RequestsOf(load, "api_ack") :
        /\ args' = [args EXCEPT ![t] = r]
        /\ ensure_device(t, r, "a_read")

\* current.get("request_id") != payload.request_id
IsMismatch(current, request_id) == RequestIdOf(current) # request_id

\* (mutant) the device key is not checked
api_ack_read_NoAuth(t) ==
    /\ pc[t] = "a_read"
    /\ LET current == Get(args[t].device_id, EmptyDict) IN
        /\ loc' = [loc EXCEPT ![t].cur = current]
        /\ IF IsMismatch(current, args[t].request_id)
           THEN Goto(t, "a_mis_ts") ELSE Goto(t, "a_clear")
    /\ UNCHANGED <<commands, events, clock, issued, args, res>>

\* (mutant) an acknowledge of a command whose expires_at has passed is rejected
api_ack_read_ChecksExpiry(t) ==
    /\ pc[t] = "a_read"
    /\ IF args[t].key # DEVICE_KEYS[args[t].device_id]
       THEN /\ Return(t, HttpError(401, "Invalid device key"))
            /\ UNCHANGED loc
       ELSE LET current == Get(args[t].device_id, EmptyDict) IN
            /\ loc' = [loc EXCEPT ![t].cur = current]
            /\ IF \/ IsMismatch(current, args[t].request_id)
                  \/ "expires_at" \in DOMAIN current /\ IsExpired(current, clock)
               THEN Goto(t, "a_mis_ts") ELSE Goto(t, "a_clear")
            /\ UNCHANGED res
    /\ UNCHANGED <<commands, events, clock, issued, args>>

\* device authentication; current = commands.get(...); the id comparison
api_ack_read(t) ==
    /\ pc[t] = "a_read"
    /\ IF args[t].key # DEVICE_KEYS[args[t].device_id]
       THEN /\ Return(t, HttpError(401, "Invalid device key"))
            /\ UNCHANGED loc
       ELSE LET current == Get(args[t].device_id, EmptyDict) IN
            /\ loc' = [loc EXCEPT ![t].cur = current]
            /\ IF IsMismatch(current, args[t].request_id)
               THEN Goto(t, "a_mis_ts") ELSE Goto(t, "a_clear")
            /\ UNCHANGED res
    /\ UNCHANGED <<commands, events, clock, issued, args>>

api_ack_mismatch_ts(t) ==
    /\ pc[t] = "a_mis_ts"
    /\ loc' = [loc EXCEPT ![t].ts = clock]
    /\ Goto(t, "a_mis_append")
    /\ UNCHANGED <<commands, events, clock, issued, args, res>>

\* (mutant) a mismatching acknowledge clears the slot all the same
api_ack_mismatch_append_Clears(t) ==
    /\ pc[t] = "a_mis_append"
    /\ events' = Append(events, MismatchEvent(t))
    /\ commands' = Put(args[t].device_id, NoneCmd)
    /\ Return(t, [code |-> 200, body |-> [ok |-> FALSE, detail |-> "request_id mismatch"]])
    /\ UNCHANGED <<clock, issued, args, loc>>

\* events.append({... "ack_mismatch" ...}); return {"ok": False, ...}
api_ack_mismatch_append(t) ==
    /\ pc[t] = "a_mis_append"
    /\ events' = Append(events, MismatchEvent(t))
    /\ Return(t, [code |-> 200, body |-> [ok |-> FALSE, detail |-> "request_id mismatch"]])
    /\ UNCHANGED <<commands, clock, issued, args, loc>>

\* (mutant) the accepted acknowledge forgets to clear the slot
api_ack_clear_Skipped(t) ==
    /\ pc[t] = "a_clear"
    /\ Goto(t, "a_ts")
    /\ UNCHANGED <<commands, events, clock, issued, args, loc, res>>

\* commands[payload.device_id] = {"action": "none", ...}
api_ack_clear(t) ==
    /\ pc[t] = "a_clear"
    /\ commands' = Put(args[t].device_id, NoneCmd)
    /\ Goto(t, "a_ts")
    /\ UNCHANGED <<events, clock, issued, args, loc, res>>

api_ack_ts(t) ==
    /\ pc[t] = "a_ts"
    /\ loc' = [loc EXCEPT ![t].ts = clock]
    /\ Goto(t, "a_append")
    /\ UNCHANGED <<commands, events, clock, issued, args, res>>

\* events.append({... "ack" ...}); return {"ok": True}
api_ack_append(t) ==
    /\ pc[t] = "a_append"
    /\ events' = Append(events, AckEvent(t))
    /\ Return(t, [code |-> 200, body |-> [ok |-> TRUE]])
    /\ UNCHANGED <<commands, clock, issued, args, loc>>

----------------------------------------------------------------------------
(* GET /api/events *)

api_events(t, load) ==
    /\ Accepts(t, load)
    /\ \E r \in RequestsOf(load, "api_events") :
        /\ args' = [args EXCEPT ![t] = r]
        /\ IF r.key # ADMIN_API_KEY
           THEN Return(t, HttpError(401, "Invalid admin API key"))
           ELSE Return(t, [code |-> 200, body |-> [events |-> LastEvents(events)]])
        /\ UNCHANGED <<commands, events, clock, issued, loc>>

----------------------------------------------------------------------------
(* The server: any thread of the pool takes its next step, or time passes *)

\* a thread in a handler runs its next statement
Run(t) ==
    \/ ensure_device_set(t)
    \/ api_unlock_token(t)
    \/ api_unlock_store(t)
    \/ api_unlock_ts(t)
    \/ api_unlock_append(t)
    \/ api_unlock_trim(t)
    \/ api_command_read(t)
    \/ api_command_check(t)
    \/ api_command_reset(t)
    \/ api_command_ts(t)
    \/ api_command_append(t)
    \/ api_ack_read(t)
    \/ api_ack_mismatch_ts(t)
    \/ api_ack_mismatch_append(t)
    \/ api_ack_clear(t)
    \/ api_ack_ts(t)
    \/ api_ack_append(t)
    \/ Finish(t)

Next ==
    \/ Tick
    \/ \E t \in Threads :
          \/ api_unlock(t, ConcurrentLoad)
          \/ api_command(t, ConcurrentLoad)
          \/ api_ack(t, ConcurrentLoad)
          \/ api_events(t, ConcurrentLoad)
          \/ Run(t)

Spec == Init /\ [][Next]_vars

\* requests served one at a time: a request is taken up only when none is in flight
NextSerial ==
    \/ Tick
    \/ \E t \in Threads :
          \/ api_unlock(t, SerialLoad)
          \/ api_command(t, SerialLoad)
          \/ api_ack(t, SerialLoad)
          \/ api_events(t, SerialLoad)
          \/ Run(t)

SpecSerial == Init /\ [][NextSerial]_vars

\* requests of every kind, the malformed ones included, served one at a time
NextValidation ==
    \/ Tick
    \/ \E t \in Threads :
          \/ api_unlock(t, ValidationLoad)
          \/ api_command(t, ValidationLoad)
          \/ api_ack(t, ValidationLoad)
          \/ api_events(t, ValidationLoad)
          \/ Run(t)

SpecValidation == Init /\ [][NextValidation]_vars

\* the long log: requests served one at a time; the clock stands still while
\* the log is being filled
NextLog ==
    \/ Len(events) >= Fill /\ Tick
    \/ \E t \in Threads :
          \/ api_unlock(t, LogLoad)
          \/ api_command(t, LogLoad)
          \/ api_ack(t, LogLoad)
          \/ api_events(t, LogLoad)
          \/ Run(t)

SpecLog == Init /\ [][NextLog]_vars

\* progress: requests served one at a time, the clock advances between them
TickIdle == Active = {} /\ Tick

Poll == \E t \in Threads : api_command(t, LiveLoad)

NextLive ==
    \/ TickIdle
    \/ Poll
    \/ \E t \in Threads :
          \/ api_unlock(t, LiveLoad)
          \/ api_ack(t, LiveLoad)
          \/ api_events(t, LiveLoad)
          \/ Run(t)

\* the clock keeps advancing, the device polls again and again, and a handler
\* that has started runs to its end
SpecLive ==
    /\ Init /\ [][NextLive]_vars
    /\ SF_vars(TickIdle)
    /\ SF_vars(Poll)
    /\ \A t \in Threads : WF_vars(Run(t))

----------------------------------------------------------------------------
(* Views of the state used by the properties *)

\* the command slot of a device as every reader sees it (main.py:104)
Slot(device_id) == Get(device_id, NoneCmd)

\* the positions of the log that hold an event of the given type for the id
EventsOf(type, request_id) ==
    {i \in DOMAIN events :
        events[i].type = type /\ events[i].request_id = request_id}

IssuedIds == {Token(n) : n \in 1..issued}

Last(log) == log[Len(log)]

\* thread t has just answered a request of the given route
Answered(t, op) == pc[t] = "done" /\ args[t].op = op

KnownDevice(t) == args[t].device_id \in DOMAIN DEVICE_KEYS

\* thread t serves an acknowledge of a registered device that carries its key
AuthenticAck(t) ==
    /\ args[t].op = "api_ack"
    /\ KnownDevice(t)
    /\ args[t].key = DEVICE_KEYS[args[t].device_id]

\* what the acknowledge served by t found in the slot: its local `current`
\* (when requests are served one at a time, the slot as it was before the call)
Found(t) == loc[t].cur

----------------------------------------------------------------------------
(* C1: two acknowledgements of the same request id, run concurrently, are never
   both accepted: for every issued request id the log holds at most one "ack"
   event. *)
C1_AtMostOneAckPerId ==
    \A id \in IssuedIds : Cardinality(EventsOf("ack", id)) <= 1

(* C2: an acknowledge that carries the old request id R1 never clears a slot
   that holds another, newly issued command R2: the step of api_ack that resets
   the slot, taken for an issued id, finds in the slot either nothing pending
   or the command it acknowledges. *)
C2_AckClearsOnlyItsOwnCommand ==
    [][\A t \in Threads :
          pc[t] = "a_clear" /\ pc'[t] = "a_ts" /\ args[t].request_id \in IssuedIds
          => ~ ( /\ Slot(args[t].device_id).action = "unlock"
                 /\ Slot(args[t].device_id).request_id # args[t].request_id )]_vars

(* C3: served alone, an authentic acknowledge that names the request id of the
   pending command resets the slot to NONE, appends the one "ack" event of that
   id, with the submitted status, and answers ok = TRUE; an authentic
   acknowledge of an id for which the log already holds an "ack" event answers
   ok = FALSE and appends an "ack_mismatch" event. *)
C3_AckOnceThenMismatch ==
    \A t \in Threads :
        pc[t] = "done" /\ AuthenticAck(t) =>
            /\ Found(t).action = "unlock" /\ Found(t).request_id = args[t].request_id
                => /\ res[t] = [code |-> 200, body |-> [ok |-> TRUE]]
                   /\ Slot(args[t].device_id) = NoneCmd
                   /\ Last(events).type = "ack"
                   /\ Last(events).device_id = args[t].device_id
                   /\ Last(events).request_id = args[t].request_id
                   /\ Last(events).status = args[t].status
                   /\ EventsOf("ack", args[t].request_id) = {Len(events)}
            /\ args[t].request_id \in IssuedIds
               /\ EventsOf("ack", args[t].request_id) \ {Len(events)} # {}
                => /\ res[t].code = 200
                   /\ res[t].body.ok = FALSE
                   /\ Last(events).type = "ack_mismatch"
                   /\ Last(events).request_id = args[t].request_id

\* a second acknowledge of an id has been answered after the first was accepted
C3_Witness ==
    \E t \in Threads :
        /\ pc[t] = "done" /\ AuthenticAck(t)
        /\ args[t].request_id \in IssuedIds
        /\ EventsOf("ack", args[t].request_id) \ {Len(events)} # {}
        /\ res[t].body.ok = FALSE
        /\ args[t].status = "failed"

(* C4: served alone, an authentic acknowledge whose request id differs from the
   stored one leaves the slot exactly as it was, answers ok = FALSE and appends
   exactly one event, an "ack_mismatch" that records the submitted id, the
   stored id and the submitted status.  Stated in two parts: what holds when
   the handler has answered, and what each of its steps may change. *)
C4_MismatchAnswered(t) ==
    pc[t] = "done" /\ AuthenticAck(t) /\ Found(t).request_id # args[t].request_id =>
        /\ Slot(args[t].device_id) = Found(t)
        /\ res[t] = [code |-> 200,
                     body |-> [ok |-> FALSE, detail |-> "request_id mismatch"]]
        /\ Last(events).type = "ack_mismatch"
        /\ Last(events).device_id = args[t].device_id
        /\ Last(events).request_id = args[t].request_id
        /\ Last(events).current_request_id = Found(t).request_id
        /\ Last(events).status = args[t].status

C4_MismatchStep(t) ==
    /\ args'[t].op = "api_ack"
    /\ pc'[t] # pc[t]
    /\ pc[t] \notin {"a_clear", "a_ts", "a_append"}
    => /\ \A d \in DOMAIN DEVICE_KEYS : Slot(d)' = Slot(d)
       /\ IF pc[t] = "a_mis_append"
          THEN /\ Len(events') = Len(events) + 1
               /\ SubSeq(events', 1, Len(events)) = events
          ELSE events' = events

C4_MismatchLeavesSlot ==
    /\ [](\A t \in Threads : C4_MismatchAnswered(t))
    /\ [][\A t \in Threads : C4_MismatchStep(t)]_vars

\* a stale id has been rejected while another command was pending
C4_Witness ==
    \E t \in Threads :
        /\ pc[t] = "done" /\ AuthenticAck(t)
        /\ args[t].request_id \in IssuedIds
        /\ Found(t).action = "unlock"
        /\ Found(t).request_id # args[t].request_id
        /\ Slot(args[t].device_id) = Found(t)
        /\ res[t].body.ok = FALSE

(* C5: served alone, a poll made after the pending command's expires_at never
   returns the command: it resets the slot, appends the "command_expired" event
   and answers action "none"; every poll that finds the slot NONE answers
   "none" and appends nothing, so a command gets one "command_expired" event
   however often it is polled: the log never holds two of them for a device
   without an "unlock_issued" of that device in between. *)
C5_ExpiringPollAnswered(t) ==
    /\ Answered(t, "api_command") /\ KnownDevice(t)
    /\ Found(t).action = "unlock" /\ res[t].body.action = "none"
    => /\ Slot(args[t].device_id) = NoneCmd
       /\ res[t] = [code |-> 200, body |-> [action |-> "none"]]
       /\ Last(events).type = "command_expired"
       /\ Last(events).device_id = args[t].device_id

C5_OneExpiredPerIssue ==
    \A i, j \in DOMAIN events :
        /\ i < j
        /\ events[i].type = "command_expired" /\ events[j].type = "command_expired"
        /\ events[i].device_id = events[j].device_id
        => \E k \in (i + 1)..(j - 1) :
               /\ events[k].type = "unlock_issued"
               /\ events[k].device_id = events[i].device_id

C5_PollStep(t) ==
    /\ args'[t].op = "api_command" /\ pc'[t] # pc[t]
    => /\ pc[t] # "p_append" => events' = events
       /\ pc[t] = "p_append" => events' = Append(events, Last(events'))
       /\ pc[t] = "p_check" =>
             IF Found(t).action = "unlock" /\ clock > Found(t).expires_at
             THEN pc'[t] = "p_reset"
             ELSE /\ pc'[t] = "done"
                  /\ res'[t] = [code |-> 200, body |-> Found(t)]
                  /\ commands' = commands

C5_ExpiredExactlyOnce ==
    /\ [](\A t \in Threads : C5_ExpiringPollAnswered(t))
    /\ [](C5_OneExpiredPerIssue)
    /\ [][\A t \in Threads : C5_PollStep(t)]_vars

\* a poll made after the expiring poll has found the slot NONE and added nothing
C5_Witness ==
    \E t \in Threads :
        /\ Answered(t, "api_command") /\ KnownDevice(t)
        /\ Found(t) = NoneCmd
        /\ res[t].body.action = "none"
        /\ Len(events) = 2
        /\ events[1].type = "unlock_issued"
        /\ events[2].type = "command_expired"

(* C6: served alone, an issue overwrites whatever the slot holds: when it has
   answered, the slot holds exactly the command it returned, under an id no
   earlier issue used.  An acknowledge that carries an id other than the
   device's latest issued one is then rejected and leaves the latest command
   as it found it (pending, if nothing consumed it); an acknowledge that
   carries the latest issued id, not yet consumed, is accepted and resets the
   slot to NONE. *)
IssuesOf(device_id, upto) ==
    {i \in 1..upto : events[i].type = "unlock_issued" /\ events[i].device_id = device_id}

MaxOf(S) == CHOOSE x \in S : \A y \in S : y <= x

\* after the issue logged at position i, nothing up to position upto consumed it
Unconsumed(device_id, i, upto) ==
    \A k \in (i + 1)..upto :
        events[k].device_id = device_id
        => events[k].type \notin {"ack", "command_expired", "unlock_issued"}

C6_IssueAnswered(t) ==
    Answered(t, "api_unlock") /\ res[t].code = 200 =>
        /\ Slot(args[t].device_id).action = "unlock"
        /\ Slot(args[t].device_id).request_id = res[t].body.request_id
        /\ Slot(args[t].device_id).expires_at = res[t].body.expires_at
        /\ Last(events).type = "unlock_issued"
        /\ Last(events).request_id = res[t].body.request_id
        /\ \A i \in IssuesOf(args[t].device_id, Len(events) - 1) :
               events[i].request_id # res[t].body.request_id

C6_AckAfterIssues(t) ==
    LET d == args[t].device_id
        before == Len(events) - 1
        issues == IssuesOf(d, before)
        latest == MaxOf(issues)
    IN  pc[t] = "done" /\ AuthenticAck(t) /\ issues # {} =>
            /\ args[t].request_id \in IssuedIds
               /\ events[latest].request_id # args[t].request_id
               => /\ res[t].body.ok = FALSE
                  /\ Last(events).type = "ack_mismatch"
                  /\ Slot(d) = Found(t)
                  /\ Unconsumed(d, latest, before)
                     => /\ Slot(d).action = "unlock"
                        /\ Slot(d).request_id = events[latest].request_id
            /\ events[latest].request_id = args[t].request_id
               /\ Unconsumed(d, latest, before)
               => /\ res[t].body.ok = TRUE
                  /\ Last(events).type = "ack"
                  /\ Slot(d) = NoneCmd

C6_IssueOverwrites ==
    \A t \in Threads : C6_IssueAnswered(t) /\ C6_AckAfterIssues(t)

\* after two issues, the old id has been rejected and the new command is pending
C6_Witness ==
    \E t \in Threads :
        /\ pc[t] = "done" /\ AuthenticAck(t)
        /\ Len(events) = 3
        /\ events[1].type = "unlock_issued" /\ events[2].type = "unlock_issued"
        /\ args[t].request_id = events[1].request_id
        /\ res[t].body.ok = FALSE
        /\ Slot(args[t].device_id).action = "unlock"
        /\ Slot(args[t].device_id).request_id = events[2].request_id

(* C7 as stated: on Issue, Poll and Acknowledge, an unknown device_id yields
   the not-found error whatever secret is supplied. *)
C7_UnknownDeviceBeforeAuth ==
    \A t \in Threads :
        /\ pc[t] = "done"
        /\ args[t].op \in {"api_unlock", "api_command", "api_ack"}
        /\ ~ KnownDevice(t)
        => res[t].code = 404

(* C7 as amended: an unknown device_id yields the not-found error on Poll and
   on Acknowledge whatever secret is supplied, and on Issue when the admin
   secret is right; Issue checks the admin secret first, so with a wrong or
   missing one it yields Unauthorized.  In every case the request is answered
   at once and neither the command store nor the log changes. *)
C7_UnknownDeviceAnswered(t) ==
    /\ pc[t] = "done"
    /\ args[t].op \in {"api_unlock", "api_command", "api_ack"}
    /\ ~ KnownDevice(t)
    => res[t].code = IF args[t].op = "api_unlock" /\ args[t].key # ADMIN_API_KEY
                     THEN 401 ELSE 404

C7_UnknownDeviceStep(t) ==
    /\ args'[t].op \in {"api_unlock", "api_command", "api_ack"}
    /\ args'[t].device_id \notin DOMAIN DEVICE_KEYS
    /\ pc'[t] # pc[t]
    => /\ pc'[t] = "done"
       /\ commands' = commands
       /\ events' = events

C7_UnknownDeviceRejected ==
    /\ [](\A t \in Threads : C7_UnknownDeviceAnswered(t))
    /\ [][\A t \in Threads : C7_UnknownDeviceStep(t)]_vars

\* an acknowledge for an unknown device, sent without a key, got the 404
\* while a command was pending
C7_Witness ==
    \E t \in Threads :
        /\ Answered(t, "api_ack") /\ ~ KnownDevice(t)
        /\ args[t].key = None
        /\ res[t].code = 404
        /\ Slot("lock1").action = "unlock"

(* C8: Issue or ListEvents with a wrong or missing admin secret is answered
   Unauthorized at once and changes nothing: the command store, the log and
   the token source are as before, also when the device is known and a command
   is pending. *)
C8_BadAdminAnswered(t) ==
    /\ pc[t] = "done"
    /\ args[t].op \in {"api_unlock", "api_events"}
    /\ args[t].key # ADMIN_API_KEY
    => res[t] = [code |-> 401, detail |-> "Invalid admin API key"]

C8_BadAdminStep(t) ==
    /\ args'[t].op \in {"api_unlock", "api_events"}
    /\ args'[t].key # ADMIN_API_KEY
    /\ pc'[t] # pc[t]
    => /\ pc'[t] = "done"
       /\ commands' = commands
       /\ events' = events
       /\ issued' = issued

C8_BadAdminChangesNothing ==
    /\ [](\A t \in Threads : C8_BadAdminAnswered(t))
    /\ [][\A t \in Threads : C8_BadAdminStep(t)]_vars

\* an issue for lock1 with the device key instead of the admin key was turned
\* away while a command was pending
C8_Witness ==
    \E t \in Threads :
        /\ Answered(t, "api_unlock") /\ KnownDevice(t)
        /\ args[t].key = DEVICE_KEYS[args[t].device_id]
        /\ res[t].code = 401
        /\ Slot(args[t].device_id).action = "unlock"

(* C9: Acknowledge for a known device with a wrong or missing device secret is
   answered Unauthorized (401, not the 404 of an unknown device) and mutates
   nothing: no step of it changes any device's slot, as commands.get reads it,
   or the log, also when it names the pending command's request id. *)
C9_BadDeviceKey(t) ==
    /\ args[t].op = "api_ack"
    /\ KnownDevice(t)
    /\ args[t].key # DEVICE_KEYS[args[t].device_id]

C9_BadDeviceKeyAnswered(t) ==
    pc[t] = "done" /\ C9_BadDeviceKey(t)
    => res[t] = [code |-> 401, detail |-> "Invalid device key"]

C9_BadDeviceKeyStep(t) ==
    C9_BadDeviceKey(t)' /\ pc'[t] # pc[t]
    => /\ \A d \in DOMAIN DEVICE_KEYS : Slot(d)' = Slot(d)
       /\ events' = events

C9_BadDeviceKeyChangesNothing ==
    /\ [](\A t \in Threads : C9_BadDeviceKeyAnswered(t))
    /\ [][\A t \in Threads : C9_BadDeviceKeyStep(t)]_vars

\* an acknowledge naming the pending command, sent with the admin key instead
\* of the device key, was turned away and the command is still pending
C9_Witness ==
    \E t \in Threads :
        /\ pc[t] = "done" /\ C9_BadDeviceKey(t)
        /\ args[t].key = ADMIN_API_KEY
        /\ res[t].code = 401
        /\ Slot(args[t].device_id).action = "unlock"
        /\ Slot(args[t].device_id).request_id = args[t].request_id

(* C10: the effective ttl of an authorised issue is its ttl_seconds (10 when
   absent) clamped into [3, 60]: expires_at = now + clamp(ttl_seconds), now
   being the clock read that computes it; so now + 3 <= expires_at <= now + 60.
   The code breaks it for ttl_seconds = 0, which `or` takes for absent. *)
C10_TtlIsInputClamped ==
    [][\A t \in Threads :
          pc[t] = "u_token" /\ pc'[t] = "u_store" =>
              LET given == IF args[t].ttl_seconds = NoTtl
                           THEN 10 ELSE args[t].ttl_seconds[1]
                  clamped == IF given < 3 THEN 3 ELSE IF given > 60 THEN 60 ELSE given
              IN  loc'[t].exp = clock + clamped]_vars

(* C10, the part the code satisfies: for every ttl_seconds of an authorised
   issue the expires_at that is computed, stored and returned satisfies
   now + 3 <= expires_at <= now + 60; the effective ttl is the input clamped
   into [3, 60], except that an input of 0 gives the default 10, not 3. *)
C10_EffectiveTtl(ttl_seconds) ==
    CASE ttl_seconds = NoTtl -> 10
      [] ttl_seconds # NoTtl /\ ttl_seconds[1] = 0 -> 10
      [] ttl_seconds # NoTtl /\ ttl_seconds[1] # 0 /\ ttl_seconds[1] < 3 -> 3
      [] ttl_seconds # NoTtl /\ ttl_seconds[1] > 60 -> 60
      [] OTHER -> ttl_seconds[1]

C10_IssueStep(t) ==
    /\ pc[t] = "u_token" /\ pc'[t] = "u_store"
       => /\ loc'[t].exp >= clock + 3
          /\ loc'[t].exp <= clock + 60
          /\ loc'[t].exp = clock + C10_EffectiveTtl(args[t].ttl_seconds)
    /\ pc[t] = "u_store" /\ pc'[t] = "u_ts"
       => Slot(args[t].device_id)'.expires_at = loc[t].exp

C10_IssueAnswered(t) ==
    Answered(t, "api_unlock") /\ res[t].code = 200
    => /\ res[t].body.expires_at = loc[t].exp
       /\ Slot(args[t].device_id).expires_at = res[t].body.expires_at

C10_ExpiryWithinBounds ==
    /\ [](\A t \in Threads : C10_IssueAnswered(t))
    /\ [][\A t \in Threads : C10_IssueStep(t)]_vars

\* an issue with ttl_seconds = 0 has answered with a command that lives 10
C10_Witness ==
    \E t \in Threads :
        /\ Answered(t, "api_unlock") /\ res[t].code = 200
        /\ args[t].ttl_seconds = <<0>>
        /\ res[t].body.expires_at = Slot(args[t].device_id).created_at + 10

(* C11: the log is capacity-bounded: whatever the operations were, when an
   operation has answered the log holds at most MaxEvents (200) events.  The
   code trims only in api_unlock, so polls and acknowledgements break it. *)
C11_LogBounded ==
    \A t \in Threads : pc[t] = "done" => Len(events) <= MaxEvents

(* C12: a listing with the admin secret returns the min(100, N) most recently
   appended events in append order, N being the number of events ever
   appended.  Stated in two parts: an answered listing holds the last
   min(100, Len(events)) stored events in order; and every step leaves the
   log, appends one event to it, or removes a prefix and leaves at least 100
   events, so the stored log always ends with the min(100, N) most recently
   appended events and never falls below 100 once it has reached them. *)
C12_ListingAnswered(t) ==
    Answered(t, "api_events") /\ args[t].key = ADMIN_API_KEY =>
        LET out == res[t].body.events
            n == IF Len(events) < 100 THEN Len(events) ELSE 100
        IN  /\ res[t].code = 200
            /\ Len(out) = n
            /\ \A i \in 1..n : out[i] = events[Len(events) - n + i]

C12_LogStep ==
    \/ events' = events
    \/ /\ Len(events') = Len(events) + 1
       /\ SubSeq(events', 1, Len(events)) = events
    \/ /\ Len(events') < Len(events)
       /\ Len(events') >= 100
       /\ events' = SubSeq(events, Len(events) - Len(events') + 1, Len(events))

C12_ListsMostRecent ==
    /\ [](\A t \in Threads : C12_ListingAnswered(t))
    /\ [][C12_LogStep]_vars

\* the log has been listed right after an issue trimmed it: 100 events, the
\* last of them the issue's own
C12_Witness ==
    \E t \in Threads :
        /\ Answered(t, "api_events") /\ args[t].key = ADMIN_API_KEY
        /\ Len(events) = MaxEvents + 1 - TrimBlock
        /\ Last(events).type = "unlock_issued"
        /\ Len(res[t].body.events) = 100
        /\ res[t].body.events[100] = Last(events)

(* C13: under concurrent writers the log is chronological: in every reachable
   state the timestamps of the stored events are non-decreasing in list
   order.  The code reads the clock and appends in two steps with no lock. *)
C13_LogChronological ==
    \A i, j \in DOMAIN events : i < j => events[i].ts <= events[j].ts

(* C14: the poll's check-and-reset is atomic with respect to a concurrent
   issue: the step of api_command that resets the slot removes only a command
   whose expires_at has passed, never a freshly issued, unexpired one. *)
C14_PollResetsOnlyExpired ==
    [][\A t \in Threads :
          pc[t] = "p_reset" /\ pc'[t] = "p_ts" /\ Slot(args[t].device_id).action = "unlock"
          => clock > Slot(args[t].device_id).expires_at]_vars

(* C15: two polls that run concurrently after a command's expires_at append
   one "command_expired" event for it, not one each: a poll appends the event
   only for a command it found pending, so the log never holds more
   "command_expired" events than commands were issued. *)
C15_OneExpiredPerCommand ==
    Cardinality({i \in DOMAIN events : events[i].type = "command_expired"}) <= issued

(* C16: served alone, an acknowledge decides on request_id equality and
   ignores time: an authentic acknowledge that names the stored request_id of
   a command whose expires_at has passed, and which no poll has expired, takes
   the accepted path; when it has answered, the answer is ok = TRUE, the slot
   is NONE and the log has grown by the "ack" event of that id; no step of an
   acknowledge appends anything but an "ack" or "ack_mismatch" event. *)
C16_AckStep(t) ==
    /\ /\ pc[t] = "a_read" /\ pc'[t] # pc[t] /\ AuthenticAck(t)
       /\ Slot(args[t].device_id).action = "unlock"
       /\ Slot(args[t].device_id).request_id = args[t].request_id
       /\ clock > Slot(args[t].device_id).expires_at
       => /\ pc'[t] = "a_clear"
          /\ commands' = commands
          /\ events' = events
    /\ args'[t].op = "api_ack" /\ pc'[t] # pc[t]
       => \/ events' = events
          \/ /\ Len(events') = Len(events) + 1
             /\ SubSeq(events', 1, Len(events)) = events
             /\ Last(events').type \in {"ack", "ack_mismatch"}

C16_AckAnswered(t) ==
    /\ pc[t] = "done" /\ AuthenticAck(t)
    /\ Found(t).action = "unlock" /\ Found(t).request_id = args[t].request_id
    => /\ res[t] = [code |-> 200, body |-> [ok |-> TRUE]]
       /\ Slot(args[t].device_id) = NoneCmd
       /\ Last(events).type = "ack"
       /\ Last(events).request_id = args[t].request_id
       /\ \A i \in DOMAIN events :
              events[i].type = "command_expired" =>
                  \E j \in (i + 1)..Len(events) :
                      /\ events[j].type = "unlock_issued"
                      /\ events[j].request_id = args[t].request_id

C16_AckIgnoresTime ==
    /\ [](\A t \in Threads : C16_AckAnswered(t))
    /\ [][\A t \in Threads : C16_AckStep(t)]_vars

\* an acknowledge of the pending id, sent after a rejected one that is logged
\* with a timestamp past the command's expires_at, has been accepted
C16_Witness ==
    \E t \in Threads :
        /\ pc[t] = "done" /\ AuthenticAck(t)
        /\ Len(events) = 3
        /\ events[1].type = "unlock_issued"
        /\ events[1].request_id = args[t].request_id
        /\ events[2].type = "ack_mismatch"
        /\ events[2].ts > Found(t).expires_at
        /\ events[3].type = "ack"
        /\ events[3].request_id = args[t].request_id
        /\ res[t].body.ok = TRUE
        /\ Slot(args[t].device_id) = NoneCmd

(* C17: served alone, a poll of a known device made at a time t <= expires_at
   of the pending command (t = expires_at included), or while the slot is
   NONE, is read-only: it returns the stored command (action, request_id and
   expires_at as stored) and leaves the slot and the log unchanged. *)
C17_Quiet(cmd, time) == cmd.action = "none" \/ time <= cmd.expires_at

C17_PollStep(t) ==
    args'[t].op = "api_command" /\ KnownDevice(t)' /\ pc'[t] # pc[t] =>
        /\ pc[t] \in {"idle", "ensure_set", "p_read"}
           => /\ events' = events
              /\ \A d \in DOMAIN DEVICE_KEYS : Slot(d)' = Slot(d)
        /\ pc[t] = "p_read" => Found(t)' = Slot(args[t].device_id)
        /\ pc[t] = "p_check" /\ C17_Quiet(Found(t), clock)
           => /\ pc'[t] = "done"
              /\ res'[t].code = 200
              /\ res'[t].body.action = Found(t).action
              /\ res'[t].body.request_id = Found(t).request_id
              /\ res'[t].body.expires_at = Found(t).expires_at
              /\ commands' = commands
              /\ events' = events

C17_PollAnswered(t) ==
    /\ Answered(t, "api_command") /\ KnownDevice(t)
    /\ Found(t).action = "none" \/ res[t].body.action = "unlock"
    => /\ Slot(args[t].device_id) = Found(t)
       /\ res[t].body.action = Slot(args[t].device_id).action
       /\ res[t].body.request_id = Slot(args[t].device_id).request_id
       /\ res[t].body.expires_at = Slot(args[t].device_id).expires_at

C17_QuietPollReadsOnly ==
    /\ [](\A t \in Threads : C17_PollAnswered(t))
    /\ [][\A t \in Threads : C17_PollStep(t)]_vars

\* a poll made when the clock stood at the pending command's expires_at (the
\* event logged before it has that timestamp) has returned the command
C17_Witness ==
    \E t \in Threads :
        /\ Answered(t, "api_command") /\ KnownDevice(t)
        /\ Len(events) = 2
        /\ events[1].type = "unlock_issued"
        /\ events[2].type = "ack_mismatch"
        /\ events[2].ts = Found(t).expires_at
        /\ clock = Found(t).expires_at
        /\ res[t].body.action = "unlock"
        /\ res[t].body.request_id = events[1].request_id
        /\ Slot(args[t].device_id) = Found(t)

(* C18: an acknowledge is accepted only when the slot held a pending command
   immediately before the call: with the slot NONE no acknowledge is accepted,
   whatever request_id it carries, the empty string included, so every "ack"
   event carries a request_id that an issue returned.  The code accepts the
   acknowledge of "" on a NONE slot, whose request_id is "". *)
C18_AckNeedsPending ==
    /\ \A t \in Threads :
           pc[t] = "done" /\ AuthenticAck(t) /\ res[t].code = 200 /\ res[t].body.ok
           => Found(t).action = "unlock"
    /\ \A i \in DOMAIN events :
           events[i].type = "ack" => events[i].request_id \in IssuedIds

(* C19: in the log the "unlock_issued" event of a request id precedes every
   "ack" and "ack_mismatch" event of that id, also when an acknowledge
   interleaves with the issue between its write of the slot and its append.
   Stated for the "ack" events, whose id the slot held when the acknowledge
   compared it: each of them, for an issued id, has the "unlock_issued" event
   of that id before it. *)
C19_IssuedBeforeAck ==
    \A i \in DOMAIN events :
        events[i].type = "ack" /\ events[i].request_id \in IssuedIds
        => \E j \in 1..(i - 1) :
               /\ events[j].type = "unlock_issued"
               /\ events[j].request_id = events[i].request_id

(* C20: every issued command eventually leaves the slot, provided the clock
   keeps advancing and the device is polled again and again: whenever the slot
   holds the request id R, eventually it no longer holds R (acknowledged,
   expired on a read, or overwritten); and the passing of time alone never
   changes the command store. *)
C20_Holds(n) ==
    Slot("lock1").action = "unlock" /\ Slot("lock1").request_id = Token(n)

C20_EventuallyLeaves ==
    /\ \A n \in 1..MaxIssue : C20_Holds(n) ~> ~ C20_Holds(n)
    /\ [][clock' # clock => commands' = commands]_vars

\* a poll made after the command's expires_at has taken it out of the slot
C20_Witness ==
    \E t \in Threads :
        /\ Answered(t, "api_command")
        /\ Found(t).action = "unlock"
        /\ clock > Found(t).expires_at
        /\ res[t].body = [action |-> "none"]
        /\ Slot("lock1") = NoneCmd
        /\ Last(events).type = "command_expired"

====
